---- MODULE Spec2Model ----
(***************************************************************************)
(* Model of the S Corp tax wizard: the aggregate store (TaxDataContext:   *)
(* reducer, localStorage persistence, step validators) and the wizard      *)
(* controller (TaxWizard: submit, Next, Previous, Complete, step click).   *)
(*                                                                         *)
(* One step of the model is one user event: the handler runs against the   *)
(* state of the last render, its dispatches are applied in order by the    *)
(* reducer, and the provider's save effect runs before the next event.     *)
(***************************************************************************)
EXTENDS Integers, Sequences, FiniteSets, TLC

\* ------------------------------------------------------------------------
\* Bounds of the model
\* ------------------------------------------------------------------------

\* How many times localStorage.setItem may throw during one behaviour.
MaxSaveFailures == 1

\* ------------------------------------------------------------------------
\* Values
\* ------------------------------------------------------------------------

\* steps.length in TaxWizard
NumSteps == 4

Steps == 1..NumSteps

\* A section that is null in TaxDataState.
Null == <<>>

\* localStorage.getItem("taxData") === null
Absent == <<>>

\* The form payloads a submission can carry.  Each form only submits data
\* that passed its zod schema, and every field starts from the form's
\* default value, so all fields of the form are present in the payload.

\* PersonalInfoForm: every field is required by personalInfoSchema.
PersonalInfoInputs ==
  { [fullName |-> "Ann Lee", email |-> "ann@example.com",
     phone |-> "555-010-2000", street |-> "1 Main St", city |-> "Austin",
     state |-> "TX", zipCode |-> "73301", ssn |-> "123-45-6789",
     filingStatus |-> fs] : fs \in {"single", "marriedJoint"} }

\* IncomeForm: every field is a currency string, the empty string allowed.
IncomeRecord(w2, div) ==
  [w2Wages |-> w2, interestIncome |-> "", dividendIncome |-> div,
   otherIncome |-> "", businessRevenue |-> "", passThroughIncome |-> "",
   distributions |-> ""]

IncomeInputs ==
  { IncomeRecord("", ""), IncomeRecord("0.00", "500"), IncomeRecord("0", "0.00") }

\* SCorpExpensesForm: every field is an optional string.
ExpensesRecord(rent, notes) ==
  [rent |-> rent, utilities |-> "", insurance |-> "", supplies |-> "",
   advertising |-> "", maintenance |-> "", ownerSalary |-> "",
   ownerBenefits |-> "", distributions |-> "", employeeSalaries |-> "",
   employeeBenefits |-> "", payrollTaxes |-> "", travel |-> "",
   meals |-> "", lodging |-> "", accounting |-> "", legal |-> "",
   consulting |-> "", notes |-> notes]

ExpensesInputs ==
  { ExpensesRecord("", ""), ExpensesRecord("1200", ""), ExpensesRecord("0", "") }

\* ReasonableSalaryForm: industry, experience, location, comparableSalary
\* and selectedSalary are required, hoursPerWeek is a number in 1..80.
SalaryInputs ==
  { [industry |-> "technology", experience |-> "mid", location |-> "urban",
     hoursPerWeek |-> h, comparableSalary |-> "90000",
     selectedSalary |-> sel, education |-> "", certifications |-> "",
     responsibilities |-> ""] :
       <<h, sel>> \in {<<40, "126000">>, <<20, "63000">>} }

\* ------------------------------------------------------------------------
\* State
\* ------------------------------------------------------------------------

VARIABLES
  state,            \* the TaxDataState held by useReducer
  isInitialObject,  \* state is the module-level initialState object itself
  storage,          \* localStorage["taxData"]: Absent or <<document>>
  lastSave,         \* what the save effect did after the last event
  saveFailures,     \* how many times setItem has thrown
  lastOp,           \* the last user event: its kind, step argument and form data
  prev,             \* the TaxDataState that event's handler was rendered with
  prevStorage,      \* localStorage["taxData"] when that event began
  call,             \* a call of one of the pure functions: its name and arguments
  result,           \* NoResult, or <<the value the call returned>>
  salaryForm,       \* the ReasonableSalaryForm component: NoForm when not mounted
  submitData        \* the SubmitTaxData component: NoSubmit when not mounted

wizardVars ==
  <<state, isInitialObject, storage, lastSave, saveFailures, lastOp, prev, prevStorage>>

\* What the wizard's handlers and the pure calls leave alone
componentVars == <<salaryForm, submitData>>

vars == <<state, isInitialObject, storage, lastSave, saveFailures, lastOp, prev,
          prevStorage, call, result, salaryForm, submitData>>

\* No pure function is being called (the wizard specification)
NoCall == [fn |-> "none"]

NoResult == <<>>

NoForm == <<>>

NoSubmit == <<>>

initialState ==
  [personalInfo |-> Null, income |-> Null, expenses |-> Null, salary |-> Null,
   currentStep |-> 1, completedSteps |-> <<>>]

\* Array.prototype.includes
Includes(arr, x) == \E i \in DOMAIN arr : arr[i] = x

\* The elements of an array, as a set
Elems(arr) == { arr[i] : i \in DOMAIN arr }

\* ------------------------------------------------------------------------
\* Reducer
\* ------------------------------------------------------------------------

\* The ADD_COMPLETED_STEP case with the includes test left out
AddCompletedStepAlwaysAppends(st, step) ==
  [st EXCEPT !.completedSteps = Append(st.completedSteps, step)]

\* The ADD_COMPLETED_STEP case moving a step that is present to the end
AddCompletedStepMovesToEnd(st, step) ==
  [st EXCEPT !.completedSteps =
     Append(SelectSeq(st.completedSteps, LAMBDA n : n # step), step)]

\* case "ADD_COMPLETED_STEP"
AddCompletedStepCase(st, step) ==
  IF Includes(st.completedSteps, step)
    THEN st
    ELSE [st EXCEPT !.completedSteps = Append(st.completedSteps, step)]

\* A reducer that merges a section payload into the record it replaces and
\* keeps the cursor within the steps
taxDataReducerMergingClamping(st, action) ==
  LET Merge(old, new) ==
        IF old = Null \/ new = Null THEN new
        ELSE [f \in DOMAIN old \cup DOMAIN new |->
                IF f \in DOMAIN new THEN new[f] ELSE old[f]]
      Clamp(n) == IF n < 1 THEN 1 ELSE IF n > NumSteps THEN NumSteps ELSE n
  IN CASE action.type = "SET_PERSONAL_INFO" ->
            [st EXCEPT !.personalInfo = Merge(st.personalInfo, action.payload)]
       [] action.type = "SET_INCOME" ->
            [st EXCEPT !.income = Merge(st.income, action.payload)]
       [] action.type = "SET_EXPENSES" ->
            [st EXCEPT !.expenses = Merge(st.expenses, action.payload)]
       [] action.type = "SET_SALARY" ->
            [st EXCEPT !.salary = Merge(st.salary, action.payload)]
       [] action.type = "SET_CURRENT_STEP" ->
            [st EXCEPT !.currentStep = Clamp(action.payload)]
       [] action.type = "SET_COMPLETED_STEPS" ->
            [st EXCEPT !.completedSteps = action.payload]
       [] action.type = "ADD_COMPLETED_STEP" -> AddCompletedStepCase(st, action.payload)
       [] action.type = "RESET_DATA" -> initialState
       [] OTHER -> st

taxDataReducer(st, action) ==
  CASE action.type = "SET_PERSONAL_INFO" -> [st EXCEPT !.personalInfo = action.payload]
    [] action.type = "SET_INCOME" -> [st EXCEPT !.income = action.payload]
    [] action.type = "SET_EXPENSES" -> [st EXCEPT !.expenses = action.payload]
    [] action.type = "SET_SALARY" -> [st EXCEPT !.salary = action.payload]
    [] action.type = "SET_CURRENT_STEP" -> [st EXCEPT !.currentStep = action.payload]
    [] action.type = "SET_COMPLETED_STEPS" -> [st EXCEPT !.completedSteps = action.payload]
    [] action.type = "ADD_COMPLETED_STEP" -> AddCompletedStepCase(st, action.payload)
    [] action.type = "RESET_DATA" -> initialState
    [] OTHER -> st

\* A reducer whose SET_CURRENT_STEP case assigns into the object it was
\* given and returns it
ReturnsNewObjectExceptCursor(st, isInitial, action) ==
  CASE action.type \in {"SET_PERSONAL_INFO", "SET_INCOME", "SET_EXPENSES",
                        "SET_SALARY", "SET_COMPLETED_STEPS"} -> TRUE
    [] action.type = "ADD_COMPLETED_STEP" -> ~Includes(st.completedSteps, action.payload)
    [] action.type = "RESET_DATA" -> ~isInitial
    [] OTHER -> FALSE

\* Whether the reducer returns an object other than the one it was given:
\* the spread branches build a new object, ADD_COMPLETED_STEP of a present
\* step returns its argument, RESET_DATA returns the initialState object.
ReturnsNewObject(st, isInitial, action) ==
  CASE action.type \in {"SET_PERSONAL_INFO", "SET_INCOME", "SET_EXPENSES",
                        "SET_SALARY", "SET_CURRENT_STEP", "SET_COMPLETED_STEPS"} -> TRUE
    [] action.type = "ADD_COMPLETED_STEP" -> ~Includes(st.completedSteps, action.payload)
    [] action.type = "RESET_DATA" -> ~isInitial
    [] OTHER -> FALSE

\* The dispatches of one event, applied in order.
RECURSIVE ApplyAll(_, _)
ApplyAll(obj, actions) ==
  IF actions = <<>> THEN obj
  ELSE LET a == Head(actions)
       IN ApplyAll([state |-> taxDataReducer(obj.state, a),
                    isInitial |-> IF a.type = "RESET_DATA" THEN TRUE
                                  ELSE IF ReturnsNewObject(obj.state, obj.isInitial, a) THEN FALSE
                                  ELSE obj.isInitial,
                    changed |-> obj.changed \/ ReturnsNewObject(obj.state, obj.isInitial, a)],
                   Tail(actions))

\* ------------------------------------------------------------------------
\* Step validators
\* ------------------------------------------------------------------------

\* !!data.f for a string property: false when the property is missing
\* (undefined) and when it is the empty string.
Truthy(data, f) == f \in DOMAIN data /\ data[f] # ""

\* !!data.f for a number property: false when missing and when 0.
TruthyNumber(data, f) == f \in DOMAIN data /\ data[f] # 0

validatePersonalInfo(data) ==
  IF data = Null THEN FALSE
  ELSE /\ Truthy(data, "fullName")
       /\ Truthy(data, "email")
       /\ Truthy(data, "phone")
       /\ Truthy(data, "street")
       /\ Truthy(data, "city")
       /\ Truthy(data, "state")
       /\ Truthy(data, "zipCode")
       /\ Truthy(data, "ssn")
       /\ Truthy(data, "filingStatus")

\* validateIncome asking every field, not some field, to hold data
validateIncomeEveryField(data) ==
  IF data = Null THEN FALSE
  ELSE \A f \in DOMAIN data : data[f] # "" /\ data[f] # "0" /\ data[f] # "0.00"

validateIncome(data) ==
  IF data = Null THEN FALSE
  ELSE \E f \in DOMAIN data : data[f] # "" /\ data[f] # "0" /\ data[f] # "0.00"

validateExpenses(data) ==
  IF data = Null THEN FALSE
  ELSE \E f \in DOMAIN data : data[f] # "" /\ data[f] # "0" /\ data[f] # "0.00"

\* validateSalary that also asks for comparableSalary
validateSalaryWithComparable(data) ==
  IF data = Null THEN FALSE
  ELSE /\ Truthy(data, "industry")
       /\ Truthy(data, "yearsExperience")
       /\ Truthy(data, "location")
       /\ TruthyNumber(data, "hoursPerWeek")
       /\ Truthy(data, "comparableSalary")
       /\ Truthy(data, "selectedSalary")

validateSalary(data) ==
  IF data = Null THEN FALSE
  ELSE /\ Truthy(data, "industry")
       /\ Truthy(data, "yearsExperience")
       /\ Truthy(data, "location")
       /\ TruthyNumber(data, "hoursPerWeek")
       /\ Truthy(data, "selectedSalary")

\* isFormStepComplete with the sections of steps 2 and 3 taken for each other
isFormStepCompleteSwapped(step, st) ==
  CASE step = 1 -> validatePersonalInfo(st.personalInfo)
    [] step = 2 -> validateIncome(st.expenses)
    [] step = 3 -> validateExpenses(st.income)
    [] step = 4 -> validateSalary(st.salary)
    [] OTHER -> FALSE

isFormStepComplete(step, st) ==
  CASE step = 1 -> validatePersonalInfo(st.personalInfo)
    [] step = 2 -> validateIncome(st.income)
    [] step = 3 -> validateExpenses(st.expenses)
    [] step = 4 -> validateSalary(st.salary)
    [] OTHER -> FALSE

\* ------------------------------------------------------------------------
\* Persistence
\* ------------------------------------------------------------------------

\* JSON.stringify of a section: the literal null, or an object with the
\* section's properties.
JSONsection(data) == IF data = Null THEN <<"null">> ELSE <<"object", data>>

\* JSON.stringify(state): one object with the six properties of the state.
JSONstringify(st) ==
  [personalInfo |-> JSONsection(st.personalInfo),
   income |-> JSONsection(st.income),
   expenses |-> JSONsection(st.expenses),
   salary |-> JSONsection(st.salary),
   currentStep |-> <<"number", st.currentStep>>,
   completedSteps |-> <<"array", st.completedSteps>>]

\* Stored texts that are not a snapshot: one that JSON.parse rejects, and
\* the empty string.
MalformedText == [syntaxError |-> TRUE]

EmptyText == [empty |-> TRUE]

\* if (savedData): every string but the empty one is truthy
TextIsTruthy(text) == "empty" \notin DOMAIN text

\* JSON.parse throws a SyntaxError
JSONparseThrows(text) == "syntaxError" \in DOMAIN text \/ "empty" \in DOMAIN text

JSONparseSection(doc) == IF doc[1] = "null" THEN Null ELSE doc[2]

\* JSON.parse of a document JSON.stringify(state) wrote
JSONparse(text) ==
  [personalInfo |-> JSONparseSection(text.personalInfo),
   income |-> JSONparseSection(text.income),
   expenses |-> JSONparseSection(text.expenses),
   salary |-> JSONparseSection(text.salary),
   currentStep |-> text.currentStep[2],
   completedSteps |-> text.completedSteps[2]]

\* What a session is left with when loadFromLocalStorage lets the
\* SyntaxError of JSON.parse escape: the provider never renders, no step
\* is shown
UncaughtError == [initialState EXCEPT !.currentStep = 0]

\* loadFromLocalStorage without its try/catch
loadFromLocalStorageNoCatch(stored) ==
  IF stored # Absent /\ TextIsTruthy(stored[1])
    THEN IF JSONparseThrows(stored[1]) THEN UncaughtError ELSE JSONparse(stored[1])
    ELSE initialState

\* loadFromLocalStorage that reads the sections and forgets the cursor
loadFromLocalStorageSectionsOnly(stored) ==
  IF stored # Absent /\ TextIsTruthy(stored[1]) /\ ~JSONparseThrows(stored[1])
    THEN [JSONparse(stored[1]) EXCEPT !.currentStep = 1]
    ELSE initialState

loadFromLocalStorage(stored) ==
  IF stored # Absent /\ TextIsTruthy(stored[1])
    THEN IF JSONparseThrows(stored[1]) THEN initialState ELSE JSONparse(stored[1])
    ELSE initialState

\* loadFromLocalStorage returned the initialState object, not a parsed one
LoadedInitialObject(stored) ==
  ~(stored # Absent /\ TextIsTruthy(stored[1]) /\ ~JSONparseThrows(stored[1]))

\* The provider's effect, run after a render whose state object is new:
\* localStorage.setItem in a try block; a throw leaves the key as it was.
SaveEffect(st, stored, ok) == IF ok THEN <<JSONstringify(st)>> ELSE stored

\* ------------------------------------------------------------------------
\* Wizard handlers: the dispatches each handler makes, computed from the
\* state of the render the handler closes over
\* ------------------------------------------------------------------------

SetCurrentStep(n) == [type |-> "SET_CURRENT_STEP", payload |-> n]
SetCompletedSteps(arr) == [type |-> "SET_COMPLETED_STEPS", payload |-> arr]
AddCompletedStep(n) == [type |-> "ADD_COMPLETED_STEP", payload |-> n]

\* handlePrevious without its currentStep > 1 test
handlePreviousUnguarded(st) == <<SetCurrentStep(st.currentStep - 1)>>

\* handlePrevious that also takes the step it leaves out of completedSteps
handlePreviousUnmarks(st) ==
  IF st.currentStep > 1
    THEN <<SetCurrentStep(st.currentStep - 1),
           SetCompletedSteps(SelectSeq(st.completedSteps,
                                       LAMBDA n : n # st.currentStep))>>
    ELSE <<>>

handlePrevious(st) ==
  IF st.currentStep > 1 THEN <<SetCurrentStep(st.currentStep - 1)>> ELSE <<>>

\* handleNext with the bound off by one
handleNextOffByOne(st) ==
  IF st.currentStep < NumSteps - 1 THEN <<SetCurrentStep(st.currentStep + 1)>> ELSE <<>>

handleNext(st) ==
  IF st.currentStep < NumSteps THEN <<SetCurrentStep(st.currentStep + 1)>> ELSE <<>>

\* handleComplete that builds the array one element short
handleCompleteShort(st) ==
  <<SetCompletedSteps([i \in 1..(NumSteps - 1) |-> i])>>

handleComplete(st) ==
  <<SetCompletedSteps([i \in 1..NumSteps |-> i])>>

\* completedSteps.map(step => step + 1).filter(step => step <= steps.length)
NextCandidates(completedSteps) ==
  { n + 1 : n \in Elems(completedSteps) } \cap (1..NumSteps)

\* stepNumber === Math.min(...candidates); Math.min() of nothing is
\* Infinity, which equals no step number.
IsMinCandidate(stepNumber, completedSteps) ==
  LET c == NextCandidates(completedSteps)
  IN c # {} /\ stepNumber \in c /\ \A n \in c : stepNumber <= n

handleStepClick(st, stepNumber) ==
  IF \/ Includes(st.completedSteps, stepNumber)
     \/ stepNumber = st.currentStep
     \/ IsMinCandidate(stepNumber, st.completedSteps)
    THEN <<SetCurrentStep(stepNumber)>>
    ELSE <<>>

\* onSubmit that records the submitted step as the only completed one
onSubmitStepMarksOnlyItself(st, step, data) ==
  << [type |-> CASE step = 1 -> "SET_PERSONAL_INFO"
                 [] step = 2 -> "SET_INCOME"
                 [] OTHER -> "SET_EXPENSES",
      payload |-> data],
     SetCompletedSteps(<<step>>) >> \o handleNext(st)

\* steps[0..2].onSubmit
onSubmitStep(st, step, data) ==
  << [type |-> CASE step = 1 -> "SET_PERSONAL_INFO"
                 [] step = 2 -> "SET_INCOME"
                 [] OTHER -> "SET_EXPENSES",
      payload |-> data],
     AddCompletedStep(step) >> \o handleNext(st)

\* steps[3].onSubmit that stores the salary and nothing else
onSubmitSalaryStoresOnly(st, data) ==
  << [type |-> "SET_SALARY", payload |-> data] >>

\* steps[3].onSubmit
onSubmitSalary(st, data) ==
  << [type |-> "SET_SALARY", payload |-> data], AddCompletedStep(4) >>
    \o handleComplete(st)

\* ------------------------------------------------------------------------
\* Events
\* ------------------------------------------------------------------------

\* One event: the handler's dispatches are reduced, removeItem (if the
\* handler calls it) runs inside the handler, and when the state object is
\* new the provider re-renders and its effect saves the new state.
Event(op, actions, removeKey) ==
  LET r == ApplyAll([state |-> state, isInitial |-> isInitialObject,
                     changed |-> FALSE], actions)
      afterHandler == IF removeKey THEN Absent ELSE storage
  IN /\ state' = r.state
     /\ isInitialObject' = r.isInitial
     /\ prev' = state
     /\ prevStorage' = storage
     /\ lastOp' = op
     /\ UNCHANGED <<call, result>>
     /\ UNCHANGED componentVars
     /\ IF r.changed
          THEN \E ok \in BOOLEAN :
                 /\ ok \/ saveFailures < MaxSaveFailures
                 /\ storage' = SaveEffect(r.state, afterHandler, ok)
                 /\ lastSave' = IF ok THEN "ok" ELSE "failed"
                 /\ saveFailures' = IF ok THEN saveFailures ELSE saveFailures + 1
          ELSE /\ storage' = afterHandler
               /\ lastSave' = "none"
               /\ UNCHANGED saveFailures

\* The form of the active step is submitted with data its schema accepts.
SubmitPersonalInfo ==
  /\ state.currentStep = 1
  /\ \E data \in PersonalInfoInputs :
       Event([op |-> "submit", arg |-> 1, data |-> data], onSubmitStep(state, 1, data), FALSE)

SubmitIncome ==
  /\ state.currentStep = 2
  /\ \E data \in IncomeInputs :
       Event([op |-> "submit", arg |-> 2, data |-> data], onSubmitStep(state, 2, data), FALSE)

SubmitExpenses ==
  /\ state.currentStep = 3
  /\ \E data \in ExpensesInputs :
       Event([op |-> "submit", arg |-> 3, data |-> data], onSubmitStep(state, 3, data), FALSE)

SubmitSalary ==
  /\ state.currentStep = 4
  /\ \E data \in SalaryInputs :
       Event([op |-> "submit", arg |-> 4, data |-> data], onSubmitSalary(state, data), FALSE)

\* The Previous button
Previous ==
  Event([op |-> "previous", arg |-> 0, data |-> Null], handlePrevious(state), FALSE)

\* The Next button, rendered while currentStep < steps.length
ClickNext ==
  /\ state.currentStep < NumSteps
  /\ Event([op |-> "next", arg |-> 0, data |-> Null], handleNext(state), FALSE)

\* The Complete button, rendered in place of Next on the last step
ClickComplete ==
  /\ ~(state.currentStep < NumSteps)
  /\ Event([op |-> "complete", arg |-> 0, data |-> Null], handleComplete(state), FALSE)

\* A click on one of the step indicators
StepClick ==
  \E stepNumber \in Steps :
    Event([op |-> "stepClick", arg |-> stepNumber, data |-> Null],
          handleStepClick(state, stepNumber), FALSE)

\* resetAllData: dispatch RESET_DATA, then localStorage.removeItem
Reset ==
  Event([op |-> "reset", arg |-> 0, data |-> Null], <<[type |-> "RESET_DATA"]>>, TRUE)

\* The provider is constructed over what localStorage holds: the state is
\* what loadFromLocalStorage returns, and the effect of the first render
\* saves it.
Mount(stored, ok) ==
  /\ state' = loadFromLocalStorage(stored)
  /\ isInitialObject' = LoadedInitialObject(stored)
  /\ storage' = SaveEffect(loadFromLocalStorage(stored), stored, ok)
  /\ lastSave' = IF ok THEN "ok" ELSE "failed"
  /\ saveFailures' = IF ok THEN saveFailures ELSE saveFailures + 1
  /\ prevStorage' = stored

\* The page is loaded again: a new session starts from the stored snapshot
Reload ==
  /\ \E ok \in BOOLEAN :
       /\ ok \/ saveFailures < MaxSaveFailures
       /\ Mount(storage, ok)
  /\ prev' = state
  /\ lastOp' = [op |-> "reload", arg |-> 0, data |-> Null]
  /\ UNCHANGED <<call, result>>
  /\ UNCHANGED componentVars

\* What the first session can find under the key: nothing, a text that
\* does not parse, or the empty string
FirstStored == {Absent, <<MalformedText>>, <<EmptyText>>}

\* After construction of the first session: loadFromLocalStorage returned
\* the initialState object and the effect of the first render saved it.
Init ==
  /\ \E stored \in FirstStored :
       /\ state = loadFromLocalStorage(stored)
       /\ isInitialObject = LoadedInitialObject(stored)
       /\ storage = SaveEffect(loadFromLocalStorage(stored), stored, TRUE)
       /\ prevStorage = stored
  /\ lastSave = "ok"
  /\ saveFailures = 0
  /\ lastOp = [op |-> "mount", arg |-> 0, data |-> Null]
  /\ prev = initialState
  /\ call = NoCall
  /\ result = NoResult
  /\ salaryForm = NoForm
  /\ submitData = NoSubmit

Next ==
  \/ SubmitPersonalInfo
  \/ SubmitIncome
  \/ SubmitExpenses
  \/ SubmitSalary
  \/ Previous
  \/ ClickNext
  \/ ClickComplete
  \/ StepClick
  \/ Reset
  \/ Reload

Spec == Init /\ [][Next]_vars

TypeOK ==
  /\ state.currentStep \in Int
  /\ isInitialObject \in BOOLEAN
  /\ lastSave \in {"ok", "failed", "none"}
  /\ saveFailures \in 0..MaxSaveFailures

\* ------------------------------------------------------------------------
\* Properties of the wizard (checked under Spec)
\* ------------------------------------------------------------------------

\* The section of a state that belongs to a step
SectionOf(st, step) ==
  CASE step = 1 -> st.personalInfo
    [] step = 2 -> st.income
    [] step = 3 -> st.expenses
    [] OTHER -> st.salary

\* The sections of two states agree, except possibly the one of a step
SectionsSameExcept(st1, st2, step) ==
  \A s \in Steps \ {step} : SectionOf(st1, s) = SectionOf(st2, s)

SectionsSame(st1, st2) == SectionsSameExcept(st1, st2, 0)

\* arr1 is arr2 with nothing, or with x, added at the end
ExtendsBy(arr1, arr2, x) ==
  \/ arr1 = arr2
  \/ arr1 = Append(arr2, x)

NoDuplicates(arr) == \A i, j \in DOMAIN arr : arr[i] = arr[j] => i = j

\* The lowest step number that is not in completedSteps (none when all are)
IsLowestNotCompleted(stepNumber, completedSteps) ==
  /\ stepNumber \in Steps \ Elems(completedSteps)
  /\ \A n \in Steps \ Elems(completedSteps) : stepNumber <= n

\* C1: a step click with target t moves the cursor to t if and only if t is
\* completed, or is the current step, or is the lowest step not yet
\* completed.
C1_StepClickMovesIffPermitted ==
  lastOp.op = "stepClick" =>
    ( state.currentStep = lastOp.arg
        <=> \/ Includes(prev.completedSteps, lastOp.arg)
            \/ lastOp.arg = prev.currentStep
            \/ IsLowestNotCompleted(lastOp.arg, prev.completedSteps) )

\* C2: the cursor advances from step s to s+1, by a submission or by Next,
\* only when the completion predicate of step s holds for the stored data.
C2_AdvanceOnlyWhenComplete ==
  ( /\ lastOp.op \in {"submit", "next"}
    /\ state.currentStep = prev.currentStep + 1 )
  => isFormStepComplete(prev.currentStep, state)

\* C3: whenever completedSteps is {1,2,3,4}, all four completion predicates
\* hold for the stored data.
C3_CompleteImpliesAllValid ==
  Elems(state.completedSteps) = Steps
    => \A s \in Steps : isFormStepComplete(s, state)

\* C4: submitting step s in 1..3 on step s stores the data in section s,
\* marks s completed and moves the cursor to s+1; the other sections and
\* the other elements of completedSteps stay as they were.
C4_SubmitStoresMarksAdvances ==
  (lastOp.op = "submit" /\ lastOp.arg \in 1..3) =>
    /\ prev.currentStep = lastOp.arg
    /\ SectionOf(state, lastOp.arg) = lastOp.data
    /\ Includes(state.completedSteps, lastOp.arg)
    /\ state.currentStep = lastOp.arg + 1
    /\ SectionsSameExcept(state, prev, lastOp.arg)
    /\ ExtendsBy(state.completedSteps, prev.completedSteps, lastOp.arg)

C4_Witness ==
  /\ lastOp.op = "submit"
  /\ lastOp.arg = 3
  /\ state.expenses = lastOp.data
  /\ state.currentStep = 4
  /\ ~Includes(prev.completedSteps, 3)
  /\ prev.completedSteps # <<>>

\* C5: submitting step 4 stores the salary section, leaves the cursor on 4
\* and makes completedSteps exactly 1,2,3,4 without duplicates, whatever it
\* was before.
C5_SubmitSalaryCompletesAll ==
  (lastOp.op = "submit" /\ lastOp.arg = 4) =>
    /\ state.salary = lastOp.data
    /\ prev.currentStep = 4
    /\ state.currentStep = 4
    /\ Elems(state.completedSteps) = Steps
    /\ NoDuplicates(state.completedSteps)
    /\ SectionsSameExcept(state, prev, 4)

C5_Witness ==
  /\ lastOp.op = "submit"
  /\ lastOp.arg = 4
  /\ state.salary = lastOp.data
  /\ Elems(prev.completedSteps) = {2}
  /\ Elems(state.completedSteps) = Steps

\* C6: the cursor is always one of the steps 1..4.
C6_CurrentStepInRange ==
  1 <= state.currentStep /\ state.currentStep <= 4

\* Previous on the first step, and a submission that reached the last step
C6_Witness ==
  \/ lastOp.op = "previous" /\ prev.currentStep = 1 /\ state.currentStep = 1
  \/ lastOp.op = "submit" /\ prev.currentStep = 3 /\ state.currentStep = 4

\* C7: completedSteps holds only step numbers 1..4, each at most once.
C7_CompletedStepsIsSetOfSteps ==
  /\ Elems(state.completedSteps) \subseteq 1..4
  /\ NoDuplicates(state.completedSteps)

\* A step that was already completed is submitted again
C7_Witness ==
  /\ lastOp.op = "submit"
  /\ Includes(prev.completedSteps, lastOp.arg)
  /\ state.completedSteps = prev.completedSteps

\* C8: Previous moves the cursor one step back, or leaves it on step 1, and
\* changes neither completedSteps nor any section.
C8_PreviousDecrementsOnly ==
  lastOp.op = "previous" =>
    /\ state.currentStep =
         IF prev.currentStep > 1 THEN prev.currentStep - 1 ELSE 1
    /\ state.completedSteps = prev.completedSteps
    /\ SectionsSame(state, prev)

C8_Witness ==
  /\ lastOp.op = "previous"
  /\ prev.currentStep = 3
  /\ state.currentStep = 2
  /\ Includes(state.completedSteps, 3)
  /\ state.income # Null

\* C9: after a reset, and the save the state change triggers, the state is
\* the default state and the snapshot key is absent from storage.
C9_ResetClearsStateAndSnapshot ==
  lastOp.op = "reset" => (state = initialState /\ storage = Absent)

\* C10: a state change whose save succeeded leaves the snapshot equal to the
\* state, and every event that changes the state runs a save.
C10_WriteThrough ==
  /\ lastSave = "ok" => storage = <<JSONstringify(state)>>
  /\ state # prev => lastSave # "none"

C10_Witness ==
  /\ lastSave = "ok"
  /\ lastOp.op = "previous"
  /\ state # prev
  /\ storage = <<JSONstringify(state)>>
  /\ saveFailures = 1

UsableState(st) ==
  /\ DOMAIN st = DOMAIN initialState
  /\ st.currentStep \in Steps
  /\ Elems(st.completedSteps) \subseteq Steps

\* C12: a session that finds no snapshot, or one that does not parse, starts
\* in the default state; a save that fails leaves the new state in memory
\* and writes nothing.
C12_LoadSaveFailuresSwallowed ==
  /\ ( /\ lastOp.op \in {"mount", "reload"}
       /\ (prevStorage = Absent \/ prevStorage = <<MalformedText>>) )
     => state = initialState
  /\ lastSave = "failed" =>
       /\ UsableState(state)
       /\ storage = prevStorage \/ (lastOp.op = "reset" /\ storage = Absent)
       /\ lastOp.op = "submit" => SectionOf(state, lastOp.arg) = lastOp.data
       /\ lastOp.op = "reload" => state = loadFromLocalStorage(prevStorage)

C12_Witness ==
  /\ lastOp.op = "mount"
  /\ prevStorage = <<MalformedText>>
  /\ state = initialState
  /\ storage = <<JSONstringify(initialState)>>

\* C13: addCompletedStep applied twice gives the same completedSteps as
\* applied once, and applied to a step that is present it returns the state
\* unchanged in every field.
C13_AddCompletedStepIdempotent ==
  /\ \A s \in Steps :
       LET once == taxDataReducer(state, AddCompletedStep(s))
           twice == taxDataReducer(once, AddCompletedStep(s))
       IN /\ twice.completedSteps = once.completedSteps
          /\ Includes(state.completedSteps, s) => once = state
  /\ ( /\ lastOp.op = "submit"
       /\ lastOp.arg \in 1..3
       /\ Includes(prev.completedSteps, lastOp.arg) )
     => state.completedSteps = prev.completedSteps

C13_Witness ==
  /\ lastOp.op = "submit"
  /\ lastOp.arg = 2
  /\ Includes(prev.completedSteps, 2)
  /\ Len(prev.completedSteps) >= 2
  /\ prev.completedSteps[Len(prev.completedSteps)] # 2
  /\ state.completedSteps = prev.completedSteps

\* The targets the wizard is specified to permit: a completed step, the
\* current step, the lowest step not yet completed
PermittedTarget(st, stepNumber) ==
  \/ Includes(st.completedSteps, stepNumber)
  \/ stepNumber = st.currentStep
  \/ IsLowestNotCompleted(stepNumber, st.completedSteps)

\* C14: a step click on a target that is not permitted changes nothing:
\* cursor, completedSteps, sections and snapshot stay as they were.
C14_UnpermittedStepClickIsNoOp ==
  (lastOp.op = "stepClick" /\ ~PermittedTarget(prev, lastOp.arg))
    => (state = prev /\ storage = prevStorage)

\* Every step click that handleStepClick itself turns down changes nothing.
RejectedStepClickIsNoOp ==
  (lastOp.op = "stepClick" /\ handleStepClick(prev, lastOp.arg) = <<>>)
    => (state = prev /\ storage = prevStorage /\ lastSave = "none")

\* ------------------------------------------------------------------------
\* The step validators as pure functions (SpecValidate): each behaviour
\* makes one call with arguments drawn from the sets below
\* ------------------------------------------------------------------------

\* The largest step number isFormStepComplete is called with
MaxStepProbe == 5

\* Values of a currency field
Amounts == {"", "0", "0.00", "0.0", "500"}

PersonalInfoFields ==
  {"fullName", "email", "phone", "street", "city", "state", "zipCode", "ssn",
   "filingStatus"}

\* PersonalInfoFormData with each field empty or filled, and records that
\* lack a field
PersonalInfoTestInputs ==
  [PersonalInfoFields -> {"", "x"}]
    \cup { [f \in PersonalInfoFields \ {g} |-> "x"] : g \in {"ssn", "filingStatus"} }

\* IncomeFormData: records of the four personal income fields, and of all
\* seven fields
IncomeTestInputs ==
  [{"w2Wages", "interestIncome", "dividendIncome", "otherIncome"} -> Amounts]
    \cup { IncomeRecord(w2, div) : w2 \in Amounts, div \in Amounts }

ExpensesTestInputs ==
  { ExpensesRecord(rent, notes) : rent \in Amounts, notes \in {"", "0", "see ledger"} }

\* SalaryFormData; hoursPerWeek holds the number the form produced
SalaryTestInputs ==
  { [industry |-> i, yearsExperience |-> e, location |-> l, hoursPerWeek |-> h,
     comparableSalary |-> c, calculatedMinSalary |-> "", calculatedMaxSalary |-> "",
     selectedSalary |-> sel] :
       i \in {"", "technology"}, e \in {"", "mid"}, l \in {"", "urban"},
       h \in {0, 40}, c \in {"", "90000"}, sel \in {"", "126000"} }
    \cup { [industry |-> "technology", location |-> "urban", hoursPerWeek |-> 40,
            comparableSalary |-> "90000", selectedSalary |-> "126000"] }

\* States for isFormStepComplete: each section absent, incomplete or complete
ValidatorTestStates ==
  { [personalInfo |-> p, income |-> i, expenses |-> e, salary |-> sal,
     currentStep |-> 1, completedSteps |-> <<>>] :
       p \in {Null, [f \in PersonalInfoFields |-> "x"],
              [f \in PersonalInfoFields |-> IF f = "city" THEN "" ELSE "x"]},
       i \in {Null, IncomeRecord("0", "0.00"), IncomeRecord("0.00", "500")},
       e \in {Null, ExpensesRecord("", ""), ExpensesRecord("1200", "")},
       sal \in {Null} \cup { s \in SalaryTestInputs :
                               /\ "yearsExperience" \in DOMAIN s
                               /\ s.industry # "" /\ s.location # ""
                               /\ s.hoursPerWeek = 40 /\ s.comparableSalary = ""
                               /\ s.selectedSalary # "" } }

ValidatorCalls ==
  { [fn |-> "validatePersonalInfo", data |-> d] : d \in {Null} \cup PersonalInfoTestInputs }
    \cup { [fn |-> "validateIncome", data |-> d] : d \in {Null} \cup IncomeTestInputs }
    \cup { [fn |-> "validateExpenses", data |-> d] : d \in {Null} \cup ExpensesTestInputs }
    \cup { [fn |-> "validateSalary", data |-> d] : d \in {Null} \cup SalaryTestInputs }
    \cup { [fn |-> "isFormStepComplete", step |-> n, st |-> st] :
             n \in (-1)..MaxStepProbe, st \in ValidatorTestStates }

\* The wizard is not running
WizardIdle ==
  /\ state = initialState
  /\ isInitialObject = TRUE
  /\ storage = Absent
  /\ lastSave = "none"
  /\ saveFailures = 0
  /\ lastOp = [op |-> "none", arg |-> 0, data |-> Null]
  /\ prev = initialState
  /\ prevStorage = Absent

\* The call returns value
Return(value) ==
  /\ result = NoResult
  /\ result' = <<value>>
  /\ UNCHANGED call
  /\ UNCHANGED wizardVars
  /\ UNCHANGED componentVars

CallValidatePersonalInfo ==
  call.fn = "validatePersonalInfo" /\ Return(validatePersonalInfo(call.data))

CallValidateIncome ==
  call.fn = "validateIncome" /\ Return(validateIncome(call.data))

CallValidateExpenses ==
  call.fn = "validateExpenses" /\ Return(validateExpenses(call.data))

CallValidateSalary ==
  call.fn = "validateSalary" /\ Return(validateSalary(call.data))

CallIsFormStepComplete ==
  call.fn = "isFormStepComplete" /\ Return(isFormStepComplete(call.step, call.st))

InitValidate ==
  /\ WizardIdle
  /\ salaryForm = NoForm
  /\ submitData = NoSubmit
  /\ call \in ValidatorCalls
  /\ result = NoResult

NextValidate ==
  \/ CallValidatePersonalInfo
  \/ CallValidateIncome
  \/ CallValidateExpenses
  \/ CallValidateSalary
  \/ CallIsFormStepComplete

SpecValidate == InitValidate /\ [][NextValidate]_vars

\* ------------------------------------------------------------------------
\* Properties of the validators (checked under SpecValidate)
\* ------------------------------------------------------------------------

Returned(fn) == call.fn = fn /\ result # NoResult

\* A record is present and some field of it holds an amount that is not
\* empty, "0" or "0.00"
SomeAmountEntered(data) ==
  /\ data # Null
  /\ \E f \in DOMAIN data : data[f] \notin {"", "0", "0.00"}

\* The income record of the step-gating scenario
ScenarioIncome ==
  [w2Wages |-> "0.00", interestIncome |-> "", dividendIncome |-> "500",
   otherIncome |-> ""]

\* C15: validateIncome and validateExpenses return true exactly when the
\* record is present and at least one field is none of "", "0", "0.00"; the
\* scenario record with only dividendIncome = "500" is complete.
C15_AmountValidators ==
  /\ Returned("validateIncome") => result[1] = SomeAmountEntered(call.data)
  /\ Returned("validateExpenses") => result[1] = SomeAmountEntered(call.data)
  /\ (Returned("validateIncome") /\ call.data = ScenarioIncome) => result[1] = TRUE

C15_Witness ==
  /\ Returned("validateIncome")
  /\ call.data = ScenarioIncome
  /\ result = <<TRUE>>

\* A record is present, has each of the fields and none of them is empty
AllFilled(data, fields) ==
  /\ data # Null
  /\ \A f \in fields : f \in DOMAIN data /\ data[f] # ""

\* C16: validatePersonalInfo returns true exactly when the record is present
\* and all nine fields are non-empty; validateSalary returns true exactly
\* when the record is present and industry, experience, location,
\* hoursPerWeek and selectedSalary are non-empty, whatever comparableSalary.
C16_RequiredFieldValidators ==
  /\ Returned("validatePersonalInfo")
       => result[1] = AllFilled(call.data, PersonalInfoFields)
  /\ Returned("validateSalary")
       => result[1] =
            ( /\ AllFilled(call.data, {"industry", "yearsExperience", "location",
                                       "selectedSalary"})
              /\ "hoursPerWeek" \in DOMAIN call.data
              /\ call.data.hoursPerWeek # 0 )

C16_Witness ==
  /\ Returned("validateSalary")
  /\ call.data # Null
  /\ "yearsExperience" \in DOMAIN call.data
  /\ call.data.comparableSalary = ""
  /\ result = <<TRUE>>

\* C17: isFormStepComplete(step, state) is, for step 1..4, the predicate of
\* that step on that step's section, and false for any other step number.
C17_StepCompleteLookup ==
  Returned("isFormStepComplete") =>
    result[1] =
      CASE call.step = 1 -> AllFilled(call.st.personalInfo, PersonalInfoFields)
        [] call.step = 2 -> SomeAmountEntered(call.st.income)
        [] call.step = 3 -> SomeAmountEntered(call.st.expenses)
        [] call.step = 4 ->
             /\ AllFilled(call.st.salary, {"industry", "yearsExperience",
                                           "location", "selectedSalary"})
             /\ call.st.salary.hoursPerWeek # 0
        [] OTHER -> FALSE

C17_Witness ==
  /\ Returned("isFormStepComplete")
  /\ call.step = 3
  /\ call.st.income = IncomeRecord("0", "0.00")
  /\ call.st.expenses = ExpensesRecord("1200", "")
  /\ result = <<TRUE>>

\* ------------------------------------------------------------------------
\* The salary range calculator as a pure function (SpecRange)
\* ------------------------------------------------------------------------

\* Base salary ranges by industry (annually, in USD)
industrySalaries ==
  ("technology" :> <<60000, 150000>>) @@ ("healthcare" :> <<50000, 180000>>) @@
  ("financial" :> <<65000, 160000>>) @@ ("construction" :> <<45000, 120000>>) @@
  ("retail" :> <<40000, 100000>>) @@ ("manufacturing" :> <<45000, 110000>>) @@
  ("consulting" :> <<70000, 170000>>) @@ ("marketing" :> <<50000, 130000>>) @@
  ("legal" :> <<70000, 190000>>) @@ ("education" :> <<40000, 90000>>) @@
  ("real-estate" :> <<50000, 140000>>) @@ ("food-service" :> <<35000, 80000>>) @@
  ("other" :> <<45000, 120000>>)

\* Experience multipliers, in tenths
experienceMultipliers ==
  ("entry" :> 8) @@ ("mid" :> 10) @@ ("senior" :> 13) @@ ("expert" :> 16)

\* Location adjustments, in hundredths
locationMultipliers ==
  ("northeast" :> 115) @@ ("southeast" :> 95) @@ ("midwest" :> 90) @@
  ("southwest" :> 95) @@ ("west" :> 125) @@ ("rural" :> 80) @@
  ("suburban" :> 100) @@ ("urban" :> 120) @@ ("international" :> 100)

\* 1.0 in tenths and in hundredths
DefaultExpMulti == 10
DefaultLocMulti == 100

\* The fallback with the range of the "other" industry in its place
DefaultSalaryRangeAsOther == <<45000, 120000>>

\* The range of an industry that is not a key of the table
DefaultSalaryRange == <<50000, 120000>>

\* table[key] || default; every value of the tables is truthy
Lookup(table, key, default) ==
  IF key \in DOMAIN table THEN table[key] ELSE default

\* base * expMulti * locMulti * hoursMultiplier / 1000 is
\* ProductNumerator / ProductDenominator: base is a multiple of 1000, the
\* multipliers are in tenths and hundredths, hoursMultiplier is hours / 40
ProductNumerator(base, expMulti, locMulti, hoursPerWeek) ==
  (base \div 1000) * expMulti * locMulti * hoursPerWeek

ProductDenominator == 10 * 100 * 40

\* Math.round of the exact quotient num / den: the nearest integer, a half
\* going up
RoundExact(num, den) == (2 * num + den) \div (2 * den)

\* The products <<base / 1000, expMulti, locMulti, hoursPerWeek>> whose exact
\* value is k + 0.5 and whose value in IEEE-754 double arithmetic, the
\* operations taken left to right, is below k + 0.5 (45000 * 1.0 * 1.0 *
\* (28 / 40) is 31499.999999999996).  Every other product of the tables and
\* of the hours 1..80 is rounded by Math.round to the integer RoundExact
\* gives.
DoubleFallsBelowHalf ==
  {
    <<35, 16, 115, 50>>, <<40, 10, 125, 46>>, <<45, 8, 125, 28>>,
    <<45, 10, 100, 28>>, <<45, 10, 115, 80>>, <<45, 16, 125, 14>>,
    <<45, 16, 125, 46>>, <<50, 8, 125, 46>>, <<50, 10, 90, 28>>,
    <<50, 10, 100, 46>>, <<50, 10, 115, 24>>, <<50, 10, 115, 40>>,
    <<50, 10, 115, 56>>, <<50, 10, 115, 72>>, <<50, 10, 120, 41>>,
    <<50, 16, 125, 23>>, <<50, 16, 125, 41>>, <<50, 16, 125, 51>>,
    <<60, 8, 115, 25>>, <<60, 8, 115, 75>>, <<60, 8, 125, 41>>,
    <<60, 10, 100, 41>>, <<65, 16, 115, 50>>, <<70, 8, 115, 50>>,
    <<70, 10, 125, 56>>, <<70, 16, 115, 25>>, <<70, 16, 115, 75>>,
    <<80, 10, 125, 23>>, <<80, 10, 125, 41>>, <<80, 10, 125, 51>>,
    <<80, 13, 115, 50>>, <<90, 8, 125, 14>>, <<90, 8, 125, 46>>,
    <<90, 10, 100, 14>>, <<90, 10, 100, 46>>, <<90, 10, 115, 40>>,
    <<90, 16, 125, 7>>, <<90, 16, 125, 23>>, <<90, 16, 125, 41>>,
    <<90, 16, 125, 51>>, <<100, 8, 125, 23>>, <<100, 8, 125, 41>>,
    <<100, 8, 125, 51>>, <<100, 10, 90, 14>>, <<100, 10, 90, 46>>,
    <<100, 10, 100, 23>>, <<100, 10, 100, 41>>, <<100, 10, 100, 51>>,
    <<100, 10, 115, 12>>, <<100, 10, 115, 20>>, <<100, 10, 115, 28>>,
    <<100, 10, 115, 36>>, <<100, 10, 115, 60>>, <<100, 10, 115, 68>>,
    <<100, 10, 115, 76>>, <<110, 8, 115, 50>>, <<110, 8, 125, 46>>,
    <<110, 10, 100, 46>>, <<110, 10, 115, 40>>, <<110, 16, 115, 25>>,
    <<110, 16, 115, 75>>, <<110, 16, 125, 23>>, <<110, 16, 125, 41>>,
    <<130, 8, 115, 50>>, <<130, 16, 115, 25>>, <<130, 16, 115, 75>>,
    <<140, 8, 115, 25>>, <<140, 8, 115, 75>>, <<140, 10, 125, 28>>,
    <<150, 10, 115, 56>>, <<150, 10, 120, 7>>, <<150, 10, 120, 23>>,
    <<150, 10, 120, 41>>, <<150, 10, 120, 51>>, <<150, 13, 115, 80>>,
    <<160, 13, 115, 25>>, <<160, 13, 115, 75>>, <<170, 8, 125, 14>>,
    <<170, 8, 125, 46>>, <<170, 10, 100, 14>>, <<170, 10, 100, 46>>,
    <<170, 10, 115, 40>>, <<170, 16, 125, 7>>, <<170, 16, 125, 23>>,
    <<170, 16, 125, 41>>, <<170, 16, 125, 51>>, <<170, 16, 125, 61>>,
    <<180, 8, 125, 7>>, <<180, 8, 125, 23>>, <<180, 8, 125, 41>>,
    <<180, 8, 125, 51>>, <<180, 10, 100, 7>>, <<180, 10, 100, 23>>,
    <<180, 10, 100, 41>>, <<180, 10, 100, 51>>, <<180, 10, 115, 20>>,
    <<180, 10, 115, 60>>, <<190, 8, 125, 46>>, <<190, 10, 100, 46>>,
    <<190, 10, 115, 40>>, <<190, 16, 125, 23>>, <<190, 16, 125, 41>>,
    <<190, 16, 125, 51>>
  }

\* Math.round(base * expMulti * locMulti * hoursMultiplier / 1000) * 1000
RoundedBound(base, expMulti, locMulti, hoursPerWeek) ==
  LET num == ProductNumerator(base, expMulti, locMulti, hoursPerWeek)
      key == <<base \div 1000, expMulti, locMulti, hoursPerWeek>>
  IN IF key \in DoubleFallsBelowHalf
       THEN (num \div ProductDenominator) * 1000
       ELSE RoundExact(num, ProductDenominator) * 1000

\* calculateSalaryRange returning the bounds in the other order
calculateSalaryRangeSwapped(industry, experience, location, hoursPerWeek) ==
  LET baseSalaryRange == Lookup(industrySalaries, industry, DefaultSalaryRange)
      expMulti == Lookup(experienceMultipliers, experience, DefaultExpMulti)
      locMulti == Lookup(locationMultipliers, location, DefaultLocMulti)
  IN << RoundedBound(baseSalaryRange[2], expMulti, locMulti, hoursPerWeek),
        RoundedBound(baseSalaryRange[1], expMulti, locMulti, hoursPerWeek) >>

calculateSalaryRange(industry, experience, location, hoursPerWeek) ==
  LET baseSalaryRange == Lookup(industrySalaries, industry, DefaultSalaryRange)
      expMulti == Lookup(experienceMultipliers, experience, DefaultExpMulti)
      locMulti == Lookup(locationMultipliers, location, DefaultLocMulti)
      lowerBound == RoundedBound(baseSalaryRange[1], expMulti, locMulti, hoursPerWeek)
      upperBound == RoundedBound(baseSalaryRange[2], expMulti, locMulti, hoursPerWeek)
  IN <<lowerBound, upperBound>>

\* The middle taken on the grid of thousands
middleOnGrid(min, max) == ((min + max) \div 2000) * 1000

\* Math.round((min + max) / 2): min and max are integers, so the quotient is
\* an integer or an integer and a half, and a half goes up
middle(min, max) == (min + max + 1) \div 2

\* Number(value.hoursPerWeek) || 40
WatchedHours(hoursPerWeek) == IF hoursPerWeek = 0 THEN 40 ELSE hoursPerWeek

\* The body of the watch callback for a change of industry, experience,
\* location or hoursPerWeek: the new salaryRange, sliderValue and
\* selectedSalary
watchCallback(value) ==
  LET range == calculateSalaryRange(value.industry, value.experience,
                                    value.location,
                                    WatchedHours(value.hoursPerWeek))
      mid == middle(range[1], range[2])
  IN [salaryRange |-> range, sliderValue |-> mid, selectedSalary |-> ToString(mid)]

\* hoursPerWeek as the form schema admits it
MinHours == 1
MaxHours == 80

\* The values of the three select fields: the options, the empty default of
\* the form, and a name that is in no table
IndustryInputs == DOMAIN industrySalaries \cup {"", "agriculture"}
ExperienceInputs == DOMAIN experienceMultipliers \cup {"", "intern"}
LocationInputs == DOMAIN locationMultipliers \cup {"", "arctic"}

RangeCalls ==
  { [fn |-> f, industry |-> i, experience |-> e, location |-> l,
     hoursPerWeek |-> h] :
       f \in {"calculateSalaryRange", "watchCallback"},
       i \in IndustryInputs, e \in ExperienceInputs, l \in LocationInputs,
       h \in MinHours..MaxHours }

CallCalculateSalaryRange ==
  /\ call.fn = "calculateSalaryRange"
  /\ Return(calculateSalaryRange(call.industry, call.experience, call.location,
                                 call.hoursPerWeek))

CallWatchCallback ==
  /\ call.fn = "watchCallback"
  /\ Return(watchCallback(call))

InitRange ==
  /\ WizardIdle
  /\ salaryForm = NoForm
  /\ submitData = NoSubmit
  /\ call \in RangeCalls
  /\ result = NoResult

NextRange ==
  \/ CallCalculateSalaryRange
  \/ CallWatchCallback

SpecRange == InitRange /\ [][NextRange]_vars

\* ------------------------------------------------------------------------
\* Properties of the calculator (checked under SpecRange)
\* ------------------------------------------------------------------------

\* The bounds as the formula gives them in exact arithmetic
FormulaRange(base, experience, location, hoursPerWeek) ==
  LET expMulti == Lookup(experienceMultipliers, experience, DefaultExpMulti)
      locMulti == Lookup(locationMultipliers, location, DefaultLocMulti)
      Bound(b) == RoundExact(ProductNumerator(b, expMulti, locMulti, hoursPerWeek),
                             ProductDenominator) * 1000
  IN <<Bound(base[1]), Bound(base[2])>>

IsCall(industry, experience, location, hoursPerWeek) ==
  /\ call.industry = industry
  /\ call.experience = experience
  /\ call.location = location
  /\ call.hoursPerWeek = hoursPerWeek

\* C18: for each of the 13 industries, every tier and region (1.0 for an
\* unknown one) and every hoursPerWeek in 1..80, each bound is
\* round(base * expMulti * locMulti * (hoursPerWeek / 40) / 1000) * 1000;
\* (technology, mid, urban, 40) gives [72000, 180000] and
\* (technology, entry, rural, 20) gives [19000, 48000].
C18_RangeFollowsFormula ==
  (Returned("calculateSalaryRange") /\ call.industry \in DOMAIN industrySalaries)
    => /\ result[1] = FormulaRange(industrySalaries[call.industry], call.experience,
                                   call.location, call.hoursPerWeek)
       /\ IsCall("technology", "mid", "urban", 40) => result[1] = <<72000, 180000>>
       /\ IsCall("technology", "entry", "rural", 20) => result[1] = <<19000, 48000>>

\* What does hold of every bound: it is a multiple of 1000 nearest to the
\* exact product, that is, within 500 of it
BoundsAreNearestThousands ==
  Returned("calculateSalaryRange") =>
    LET base == Lookup(industrySalaries, call.industry, DefaultSalaryRange)
        expMulti == Lookup(experienceMultipliers, call.experience, DefaultExpMulti)
        locMulti == Lookup(locationMultipliers, call.location, DefaultLocMulti)
        Near(b, bound) ==
          LET num == ProductNumerator(b, expMulti, locMulti, call.hoursPerWeek)
          IN /\ bound % 1000 = 0
             /\ 2 * (bound \div 1000) * ProductDenominator <= 2 * num + ProductDenominator
             /\ 2 * (bound \div 1000) * ProductDenominator >= 2 * num - ProductDenominator
    IN Near(base[1], result[1][1]) /\ Near(base[2], result[1][2])

\* A call with an industry outside the table, mid experience, a region of
\* multiplier 1.0 and 40 hours has returned
UnknownIndustryPlainCall ==
  /\ Returned("calculateSalaryRange")
  /\ call.industry \notin DOMAIN industrySalaries
  /\ call.experience = "mid"
  /\ Lookup(locationMultipliers, call.location, DefaultLocMulti) = DefaultLocMulti
  /\ call.hoursPerWeek = 40

C21_DefaultPointIsRoundedMiddle ==
  Returned("watchCallback") =>
    LET low == result[1].salaryRange[1]
        high == result[1].salaryRange[2]
        point == result[1].sliderValue
    IN /\ result[1].salaryRange =
            calculateSalaryRange(call.industry, call.experience, call.location,
                                 call.hoursPerWeek)
       /\ 2 * point - (low + high) \in {0, 1}
       /\ low <= point
       /\ point <= high

C21_Witness ==
  /\ Returned("watchCallback")
  /\ IsCall("technology", "entry", "rural", 20)
  /\ result[1].salaryRange = <<19000, 48000>>
  /\ result[1].sliderValue = 33500

\* ------------------------------------------------------------------------
\* The salary form component (SpecForm): field changes and slider moves
\* ------------------------------------------------------------------------

\* The default values of useForm
FormDefaults ==
  [industry |-> "", experience |-> "", location |-> "", hoursPerWeek |-> 40,
   comparableSalary |-> "", selectedSalary |-> "", education |-> "",
   certifications |-> "", responsibilities |-> ""]

\* { ...defaults, ...defaultValues }: defaultValues is state.salary or undefined
MergedDefaults(defaultValues) ==
  IF defaultValues = Null THEN FormDefaults
  ELSE [f \in DOMAIN FormDefaults |->
          IF f \in DOMAIN defaultValues THEN defaultValues[f] ELSE FormDefaults[f]]

\* The component after its first render; name is the field of the last
\* change the watch callback was told of
MountedForm(defaultValues) ==
  [values |-> MergedDefaults(defaultValues), salaryRange |-> <<0, 0>>,
   sliderValue |-> 0, name |-> ""]

\* The watched fields without hoursPerWeek
WatchedFieldsWithoutHours == {"industry", "experience", "location"}

\* The fields whose change recomputes the range
WatchedFields == {"industry", "experience", "location", "hoursPerWeek"}

\* What the user can set each field to: options of the selects, numbers typed
\* into the hours input (0 is the emptied input), texts
FieldChoices ==
  [industry |-> {"food-service", "education"},
   experience |-> {"entry", "mid"},
   location |-> {"rural", "urban"},
   hoursPerWeek |-> {0, 20, 40},
   comparableSalary |-> {"", "90000"},
   education |-> {"", "MBA"},
   certifications |-> {"", "CPA"},
   responsibilities |-> {"", "All operations"}]

\* form.watch callback after field name has changed
WatchEffect(f, name) ==
  IF name \in WatchedFields
    THEN LET w == watchCallback(f.values)
         IN [values |-> [f.values EXCEPT !.selectedSalary = w.selectedSalary],
             salaryRange |-> w.salaryRange, sliderValue |-> w.sliderValue,
             name |-> name]
    ELSE [f EXCEPT !.name = name]

\* The user changes a field of the form
ChangeField ==
  /\ salaryForm # NoForm
  /\ \E name \in DOMAIN FieldChoices :
       \E v \in FieldChoices[name] :
         /\ v # salaryForm.values[name]
         /\ salaryForm' =
              WatchEffect([salaryForm EXCEPT !.values[name] = v], name)
  /\ UNCHANGED <<call, result, submitData>>
  /\ UNCHANGED wizardVars

\* The slider on a grid of 500
SliderValuesHalfStep(range) ==
  { range[1] + k * 500 : k \in 0..((range[2] - range[1]) \div 500) }

\* The values the slider delivers: min, min + step, ... up to max
SliderValues(range) ==
  { range[1] + k * 1000 : k \in 0..((range[2] - range[1]) \div 1000) }

handleSliderChange(f, selectedValue) ==
  WatchEffect([f EXCEPT !.sliderValue = selectedValue,
                        !.values.selectedSalary = ToString(selectedValue)],
              "selectedSalary")

\* The user moves the slider, which is rendered once salaryRange[1] > 0
MoveSlider ==
  /\ salaryForm # NoForm
  /\ salaryForm.salaryRange[2] > 0
  /\ \E v \in SliderValues(salaryForm.salaryRange) :
       salaryForm' = handleSliderChange(salaryForm, v)
  /\ UNCHANGED <<call, result, submitData>>
  /\ UNCHANGED wizardVars

InitForm ==
  /\ WizardIdle
  /\ call = NoCall
  /\ result = NoResult
  /\ submitData = NoSubmit
  /\ salaryForm \in { MountedForm(dv) : dv \in {Null} \cup SalaryInputs }

NextForm ==
  \/ ChangeField
  \/ MoveSlider

SpecForm == InitForm /\ [][NextForm]_vars

\* ------------------------------------------------------------------------
\* Properties of the salary form (checked under SpecForm)
\* ------------------------------------------------------------------------

\* The form recomputed by the last event, reading hoursPerWeek with hours(h)
RecomputedWith(f, hours(_)) ==
  LET range == calculateSalaryRange(f.values.industry, f.values.experience,
                                    f.values.location, hours(f.values.hoursPerWeek))
  IN /\ f.salaryRange = range
     /\ 2 * f.sliderValue - (range[1] + range[2]) \in {0, 1}
     /\ f.values.selectedSalary = ToString(f.sliderValue)

AsTyped(h) == h

FortyForZero(h) == IF h = 0 THEN 40 ELSE h

\* A change of another field leaves the range and selectedSalary alone
OtherFieldChangeKeepsRange ==
  (salaryForm' # salaryForm
     /\ salaryForm'.name \in {"comparableSalary", "education", "certifications",
                              "responsibilities"})
    => /\ salaryForm'.salaryRange = salaryForm.salaryRange
       /\ salaryForm'.values.selectedSalary = salaryForm.values.selectedSalary

WatchedChange(f) ==
  f.name \in {"industry", "experience", "location", "hoursPerWeek"}

\* C22 as stated: every change of industry, experience, location or
\* hoursPerWeek sets the range to calculateSalaryRange of the form's current
\* four values and selectedSalary to that range's default point, whatever the
\* slider held; a change of comparableSalary, education, certifications or
\* responsibilities changes neither.
C22_ChangeRecomputesFromFormValues ==
  [][ /\ (salaryForm' # salaryForm /\ WatchedChange(salaryForm'))
           => RecomputedWith(salaryForm', AsTyped)
      /\ OtherFieldChangeKeepsRange ]_vars

\* C22 amended: as stated, with 40 hours in place of an hoursPerWeek of 0
\* (the emptied input).
C22_ChangeRecomputesWithDefaultHours ==
  [][ /\ (salaryForm' # salaryForm /\ WatchedChange(salaryForm'))
           => RecomputedWith(salaryForm', FortyForZero)
      /\ OtherFieldChangeKeepsRange ]_vars

C22_Witness ==
  /\ salaryForm # NoForm
  /\ salaryForm.name = "hoursPerWeek"
  /\ salaryForm.values.hoursPerWeek = 0
  /\ salaryForm.values.industry = "food-service"
  /\ salaryForm.values.experience = "entry"
  /\ salaryForm.values.location = "rural"
  /\ salaryForm.salaryRange = <<22000, 51000>>
  /\ salaryForm.values.selectedSalary = "36500"

\* A range has been computed: no computed range is [0, 0]
RangeComputed == salaryForm # NoForm /\ salaryForm.salaryRange # <<0, 0>>

\* selectedSalary is the text of a number within the range
SelectedWithinRange ==
  /\ salaryForm.values.selectedSalary = ToString(salaryForm.sliderValue)
  /\ salaryForm.salaryRange[1] <= salaryForm.sliderValue
  /\ salaryForm.sliderValue <= salaryForm.salaryRange[2]

SelectedOnGrid ==
  (salaryForm.sliderValue - salaryForm.salaryRange[1]) % 1000 = 0

ReducerTestStates ==
  { [personalInfo |-> p, income |-> i, expenses |-> e, salary |-> sal,
     currentStep |-> c, completedSteps |-> done] :
       p \in {Null, [f \in PersonalInfoFields |-> "x"]},
       i \in {Null, IncomeRecord("0.00", "500")},
       e \in {Null, ExpensesRecord("1200", "")},
       sal \in {Null} \cup { r \in SalaryInputs : r.hoursPerWeek = 40 },
       c \in {1, NumSteps},
       done \in {<<>>, <<2, 1>>} }

\* Payloads of the section actions: a full record, and a record with fewer
\* fields than the one it replaces
SectionPayloads ==
  [SET_PERSONAL_INFO |-> { [f \in PersonalInfoFields |-> "y"], [fullName |-> "Ann"] },
   SET_INCOME |-> { IncomeRecord("100", ""), ScenarioIncome },
   SET_EXPENSES |-> { ExpensesRecord("", "none"), [rent |-> "900"] },
   SET_SALARY |-> { r \in SalaryInputs : r.hoursPerWeek = 20 }
                    \cup { [industry |-> "legal"] }]

ReducerActions ==
  UNION { { [type |-> t, payload |-> d] : d \in SectionPayloads[t] } :
            t \in DOMAIN SectionPayloads }
    \cup { [type |-> "SET_CURRENT_STEP", payload |-> n] :
             n \in ((-1)..MaxStepProbe) \cup {99} }

ReducerCalls ==
  { [fn |-> "taxDataReducer", st |-> st, action |-> a] :
      st \in ReducerTestStates, a \in ReducerActions }

CallTaxDataReducer ==
  /\ call.fn = "taxDataReducer"
  /\ Return(taxDataReducer(call.st, call.action))

InitReducer ==
  /\ WizardIdle
  /\ salaryForm = NoForm
  /\ submitData = NoSubmit
  /\ call \in ReducerCalls
  /\ result = NoResult

NextReducer == CallTaxDataReducer

SpecReducer == InitReducer /\ [][NextReducer]_vars

\* C23: SET_PERSONAL_INFO, SET_INCOME, SET_EXPENSES and SET_SALARY replace
\* exactly their section with the payload, without merging, and
\* SET_CURRENT_STEP sets currentStep to the payload, whatever integer it is;
\* every other field of the state is unchanged.
C23_ReducerReplacesOwnFieldOnly ==
  Returned("taxDataReducer") =>
    LET st == call.st
        payload == call.action.payload
        type == call.action.type
        Expected ==
          [personalInfo |-> IF type = "SET_PERSONAL_INFO" THEN payload ELSE st.personalInfo,
           income |-> IF type = "SET_INCOME" THEN payload ELSE st.income,
           expenses |-> IF type = "SET_EXPENSES" THEN payload ELSE st.expenses,
           salary |-> IF type = "SET_SALARY" THEN payload ELSE st.salary,
           currentStep |-> IF type = "SET_CURRENT_STEP" THEN payload ELSE st.currentStep,
           completedSteps |-> st.completedSteps]
    IN result[1] = Expected

C23_Witness ==
  /\ Returned("taxDataReducer")
  /\ call.action = [type |-> "SET_CURRENT_STEP", payload |-> 99]
  /\ call.st.completedSteps = <<2, 1>>
  /\ call.st.income # Null
  /\ result[1].currentStep = 99
  /\ result[1].completedSteps = <<2, 1>>

\* ------------------------------------------------------------------------
\* Further properties of the wizard (checked under Spec)
\* ------------------------------------------------------------------------

\* C26: in every reachable state every step number below currentStep is in
\* completedSteps.
C26_CursorNotPastFirstIncomplete ==
  \A s \in Steps : s < state.currentStep => Includes(state.completedSteps, s)

\* C27: across a submit, Next, Previous, Complete or step click, every step
\* that was in completedSteps before is still in it afterwards.
C27_CompletedStepsOnlyGrows ==
  lastOp.op \in {"submit", "next", "previous", "complete", "stepClick"}
    => Elems(prev.completedSteps) \subseteq Elems(state.completedSteps)

C27_Witness ==
  /\ lastOp.op = "submit"
  /\ lastOp.arg = 2
  /\ Elems(prev.completedSteps) = {3}
  /\ Elems(state.completedSteps) = {2, 3}

\* ------------------------------------------------------------------------
\* A run of the wizard from the default state (SpecRun): the forms are
\* submitted one after the other, and once every step is completed the
\* buttons and step indicators are used as well
\* ------------------------------------------------------------------------

AllCompleted(st) == Elems(st.completedSteps) = Steps

NextRun ==
  \/ SubmitPersonalInfo
  \/ SubmitIncome
  \/ SubmitExpenses
  \/ SubmitSalary
  \/ AllCompleted(state) /\ Previous
  \/ AllCompleted(state) /\ ClickNext
  \/ AllCompleted(state) /\ ClickComplete
  \/ AllCompleted(state) /\ StepClick

SpecRun == Init /\ [][NextRun]_vars

AllSectionsPresent(st) == \A s \in Steps : SectionOf(st, s) # Null

\* After k submissions in order: steps 1..k completed and stored, cursor on
\* the next step
InOrderSoFar ==
  LET k == Len(state.completedSteps)
  IN /\ state.completedSteps = [i \in 1..k |-> i]
     /\ state.currentStep = k + 1
     /\ \A s \in Steps : (SectionOf(state, s) # Null) <=> s <= k

\* C28: from the default state, submitting valid data for steps 1, 2, 3, 4 in
\* order with nothing in between always reaches currentStep = 4,
\* completedSteps = {1,2,3,4} with all four sections present, and no later
\* submit, Next or Complete leaves that completion set.
C28_FullRunCompletes ==
  /\ ~AllCompleted(state)
       => /\ InOrderSoFar
          /\ ENABLED (SubmitPersonalInfo \/ SubmitIncome \/ SubmitExpenses \/ SubmitSalary)
  /\ (AllCompleted(state) /\ ~AllCompleted(prev))
       => (lastOp.op = "submit" /\ lastOp.arg = 4 /\ state.currentStep = 4)
  /\ AllCompleted(state) => AllSectionsPresent(state)
  /\ (AllCompleted(prev) /\ lastOp.op \in {"submit", "next", "complete"})
       => AllCompleted(state)

C28_Witness ==
  /\ lastOp.op = "next"
  /\ AllCompleted(prev)
  /\ AllCompleted(state)
  /\ AllSectionsPresent(state)
  /\ prev.currentStep = 2
  /\ state.currentStep = 3

\* ------------------------------------------------------------------------
\* Submission of the collected data (SpecSubmit): SubmitTaxData components
\* in tabs of one browser, which share localStorage["submission_timestamps"]
\* ------------------------------------------------------------------------

\* How many tabs show the component
NumTabs == 2

\* How far the clock runs, in ticks
MaxTicks == 4

Tabs == 1..NumTabs

\* Submissions per time window
SUBMISSION_LIMIT == 3

\* 1 hour in milliseconds
TIME_WINDOW == 60 * 60 * 1000

\* The clock (Date.now()) advances in steps of 20 minutes
TickMillis == 20 * 60 * 1000

\* history.filter(timestamp => now - timestamp < TIME_WINDOW)
RecentSubmissions(history, now) ==
  SelectSeq(history, LAMBDA timestamp : now - timestamp < TIME_WINDOW)

\* isRateLimitExceeded: the answer, and the history it leaves in storage
isRateLimitExceeded(history, now) ==
  LET recentSubmissions == RecentSubmissions(history, now)
  IN [exceeded |-> Len(recentSubmissions) >= SUBMISSION_LIMIT,
      history |-> recentSubmissions]

\* addSubmission
addSubmission(history, now) == Append(history, now)

\* One component after its first render
MountedSubmit(accessKey) ==
  [pc |-> "idle", isLoading |-> FALSE, inputAccessKey |-> accessKey,
   outcome |-> "none"]

\* handleSubmit up to the await of fetch
handleSubmitStart(sd, t) ==
  LET tab == sd.tabs[t]
      limit == isRateLimitExceeded(sd.history, sd.now)
  IN IF tab.inputAccessKey = ""
       THEN [sd EXCEPT !.tabs[t].outcome = "noKey"]
     ELSE IF limit.exceeded
       THEN [sd EXCEPT !.history = limit.history,
                       !.tabs[t].outcome = "rateLimited"]
     ELSE [sd EXCEPT !.history = limit.history,
                     !.tabs[t].pc = "inFlight",
                     !.tabs[t].isLoading = TRUE,
                     !.tabs[t].outcome = "sent"]

\* handleSubmit after the await that records whatever the response was
handleSubmitResumeAlwaysRecords(sd, t, response) ==
  [sd EXCEPT !.history = addSubmission(sd.history, sd.now),
             !.tabs[t].pc = "idle",
             !.tabs[t].isLoading = FALSE,
             !.tabs[t].outcome = response]

\* handleSubmit after the await: response is "success" (result.success),
\* "failure" (result.success is false) or "error" (fetch or json() threw)
handleSubmitResume(sd, t, response) ==
  [sd EXCEPT !.history = IF response = "success"
                           THEN addSubmission(sd.history, sd.now)
                           ELSE sd.history,
             !.tabs[t].pc = "idle",
             !.tabs[t].isLoading = FALSE,
             !.tabs[t].outcome = response]

SubmitStep(next) ==
  /\ submitData # NoSubmit
  /\ submitData' = next
  /\ UNCHANGED <<call, result, salaryForm>>
  /\ UNCHANGED wizardVars

\* The user confirms the submission in a tab that has none in flight
ConfirmSubmit ==
  \E t \in Tabs :
    /\ submitData.tabs[t].pc = "idle"
    /\ SubmitStep(handleSubmitStart(submitData, t))

\* The response of a request arrives, or the request fails
ResponseArrives ==
  \E t \in Tabs, response \in {"success", "failure", "error"} :
    /\ submitData.tabs[t].pc = "inFlight"
    /\ SubmitStep(handleSubmitResume(submitData, t, response))

\* The user types or clears the access key in the dialog that handleSubmit
\* opened
EditAccessKey ==
  \E t \in Tabs, key \in {"", "0f3ed5af"} :
    /\ submitData.tabs[t].outcome = "noKey"
    /\ key # submitData.tabs[t].inputAccessKey
    /\ SubmitStep([submitData EXCEPT !.tabs[t].inputAccessKey = key])

\* Time passes
Tick ==
  /\ submitData.now < MaxTicks * TickMillis
  /\ SubmitStep([submitData EXCEPT !.now = @ + TickMillis])

InitSubmit ==
  /\ WizardIdle
  /\ call = NoCall
  /\ result = NoResult
  /\ salaryForm = NoForm
  /\ submitData \in
       { [history |-> <<>>, now |-> 0, tabs |-> tabs] :
           tabs \in [Tabs -> { MountedSubmit(k) : k \in {"", "0f3ed5af"} }] }

NextSubmit ==
  \/ ConfirmSubmit
  \/ ResponseArrives
  \/ EditAccessKey
  \/ Tick

SpecSubmit == InitSubmit /\ [][NextSubmit]_vars

\* ------------------------------------------------------------------------
\* Properties of the submission (checked under SpecSubmit)
\* ------------------------------------------------------------------------

\* C24: at most 3 submissions are recorded within any one-hour window, also
\* when several submit attempts are in flight at the same time.
C24_AtMostThreePerHour ==
  \A i \in DOMAIN submitData.history :
    Cardinality({ j \in DOMAIN submitData.history :
                    /\ submitData.history[i] <= submitData.history[j]
                    /\ submitData.history[j] - submitData.history[i] < TIME_WINDOW })
      <= 3

\* With one attempt at a time the limit does hold
SingleFlightAtMostThreePerHour ==
  (\A t \in Tabs : t # 1 => submitData.tabs[t].outcome = "none")
    => C24_AtMostThreePerHour

\* C25: the history grows only when a response reports success; with an empty
\* access key or an exceeded limit no request is sent; a failed or failing
\* request adds no timestamp; the aggregate state never changes and isLoading
\* is false once the attempt has finished.
C25_HistoryGrowsOnlyOnSuccess ==
  [][ /\ Len(submitData'.history) > Len(submitData.history)
        => \E t \in Tabs :
             /\ submitData.tabs[t].pc = "inFlight"
             /\ submitData'.tabs[t].pc = "idle"
             /\ submitData'.tabs[t].outcome = "success"
             /\ submitData'.history = Append(submitData.history, submitData.now)
      /\ \A t \in Tabs :
           /\ (submitData.tabs[t].pc = "idle" /\ submitData'.tabs[t].pc = "inFlight")
                => /\ submitData.tabs[t].inputAccessKey # ""
                   /\ Len(RecentSubmissions(submitData.history, submitData.now)) < 3
           /\ submitData'.tabs[t].outcome \in {"noKey", "rateLimited"}
                => submitData'.tabs[t].pc = "idle"
           /\ submitData'.tabs[t].pc = "idle" => ~submitData'.tabs[t].isLoading
      /\ state' = state
    ]_vars

C25_Witness ==
  /\ submitData # NoSubmit
  /\ submitData.tabs[1].outcome = "failure"
  /\ submitData.tabs[2].outcome = "rateLimited"
  /\ Len(submitData.history) = 3
  /\ ~submitData.tabs[1].isLoading

\* ------------------------------------------------------------------------
\* The income form's formatCurrency as a pure function (SpecFormat); a
\* string is the sequence of its characters
\* ------------------------------------------------------------------------

\* The longest input
MaxInputLen == 5

Digits == {"0", "1", "2", "3", "4", "5", "6", "7", "8", "9"}

\* The characters of the inputs: digits, the point, the minus sign, and
\* characters a pasted amount can hold
InputChars == {"0", "7", ".", "-", "$", ","}

\* value.replace(/[^0-9.-]/g, '')
StripNonNumeric(value) ==
  SelectSeq(value, LAMBDA c : c \in Digits \cup {".", "-"})

\* value.split('.')
RECURSIVE Split(_)
Split(value) ==
  IF \A i \in DOMAIN value : value[i] # "."
    THEN <<value>>
    ELSE LET first == CHOOSE i \in DOMAIN value :
                        /\ value[i] = "."
                        /\ \A j \in 1..(i - 1) : value[j] # "."
         IN <<SubSeq(value, 1, first - 1)>>
              \o Split(SubSeq(value, first + 1, Len(value)))

\* parts.join('')
RECURSIVE Join(_)
Join(parts) ==
  IF parts = <<>> THEN <<>> ELSE Head(parts) \o Join(Tail(parts))

\* str.substring(0, n)
Substring(str, n) == SubSeq(str, 1, IF n < Len(str) THEN n ELSE Len(str))

formatCurrency(input) ==
  LET stripped == StripNonNumeric(input)
      parts == Split(stripped)
      onePoint == IF Len(parts) > 2
                    THEN parts[1] \o <<".">> \o Join(Tail(parts))
                    ELSE stripped
  IN IF Len(parts) > 1 /\ Len(parts[2]) > 2
       THEN parts[1] \o <<".">> \o Substring(parts[2], 2)
       ELSE onePoint

RECURSIVE InputsOfLen(_)
InputsOfLen(n) ==
  IF n = 0 THEN {<<>>}
  ELSE { Append(v, c) : v \in InputsOfLen(n - 1), c \in InputChars }

FormatCalls ==
  { [fn |-> "formatCurrency", value |-> v] :
      v \in UNION { InputsOfLen(n) : n \in 0..MaxInputLen } }

CallFormatCurrency ==
  /\ call.fn = "formatCurrency"
  /\ Return(formatCurrency(call.value))

InitFormat ==
  /\ WizardIdle
  /\ salaryForm = NoForm
  /\ submitData = NoSubmit
  /\ call \in FormatCalls
  /\ result = NoResult

NextFormat == CallFormatCurrency

SpecFormat == InitFormat /\ [][NextFormat]_vars

\* The positions of the points of a string
Points(str) == { i \in DOMAIN str : str[i] = "." }

\* The returned string has only digits, points and minus signs, and one
\* point at most
OnlyNumericCharsAndOnePoint ==
  Returned("formatCurrency") =>
    /\ \A i \in DOMAIN result[1] : result[1][i] \in Digits \cup {".", "-"}
    /\ Cardinality(Points(result[1])) <= 1

\* C30: for every input string formatCurrency returns a string of digits,
\* '.' and '-' only, with at most one decimal point and at most two digits
\* after the decimal point.
C30_FormatCurrencyShape ==
  /\ OnlyNumericCharsAndOnePoint
  /\ Returned("formatCurrency") =>
       \A p \in Points(result[1]) :
         Cardinality({ i \in DOMAIN result[1] : i > p /\ result[1][i] \in Digits }) <= 2

====
